---- MODULE Spec2Model ----
(***************************************************************************)
(* Model of HF_downloader.py: one run of main().  The destination          *)
(* directory is tracked by whether it exists and by which of the eight     *)
(* root-level file names that check_required_files looks at are present;   *)
(* any other file of the tree is only counted when print_summary walks it. *)
(* The external capabilities (shutil.rmtree, snapshot_download, git clone, *)
(* git lfs, Path.mkdir) are nondeterministic in their outcome.             *)
(***************************************************************************)
EXTENDS Integers, Sequences, FiniteSets, TLC

\* ---------------------------------------------------------------- bounds
\* Watched files in the destination before the run starts.
MaxInitFiles == 1
\* Watched files one snapshot_download / git clone call writes.
MaxRepoFiles == 3
\* Unwatched files (nested, .git, README, ...) os.walk finds in a full run.
MaxExtra == 1
\* Size of the tree print_summary walks in SummarySpec.
MaxTreeFiles == 42

\* ------------------------------------------------------------- constants
\* print_summary(out_dir, max_files=40)
max_files == 40

ConfigNames == {"config.json"}
WeightsNames == {"model.safetensors", "pytorch_model.bin"}
TokenizerNames == {"tokenizer.json", "tokenizer_config.json",
                   "sentencepiece.bpe.model", "vocab.txt"}
ModulesNames == {"modules.json"}
Names == ConfigNames \cup WeightsNames \cup TokenizerNames \cup ModulesNames

ConfigLabel == "config.json"
WeightsLabel == "model.safetensors or pytorch_model.bin"
TokenizerLabel ==
    "tokenizer.json or tokenizer_config.json or sentencepiece.bpe.model or vocab.txt"

\* ------------------------------------------------------------ file trees
Absent == [exists |-> FALSE, files |-> {}]
Dir(F) == [exists |-> TRUE, files |-> F]
DirsUpTo(k) == {Dir(F) : F \in {G \in SUBSET Names : Cardinality(G) <= k}}
NoFiles(d) == ~d.exists \/ d.files = {}

\* Writing tree w into destination d: existing files stay, w's are added.
Merge(d, w) ==
    IF ~w.exists THEN d
    ELSE IF ~d.exists THEN w
    ELSE Dir(d.files \cup w.files)

VARIABLES
    force,            \* args.force
    no_insecure,      \* args.no_insecure
    dest0,            \* the destination as the run found it
    out_dir,          \* the destination now
    pc,               \* position in main()
    exitCode,         \* process exit status, -1 while running
    downloadOutcome,  \* "none", "ok", "raised"
    written,          \* what the snapshot_download call wrote
    warned,           \* the INSECURE FALLBACK warning has gone to stderr
    cloneOutcome,     \* "none", "ok", "nonzero", "nogit"
    lfsOutcome,       \* "none", "ok", "nonzero", "notfound"
    checked,          \* check_required_files has returned
    missing,          \* its result
    modulesWarned,    \* it printed the modules.json warning
    toWalk,           \* files os.walk has still to yield
    count,            \* print_summary's count
    entries,          \* " - rel (size bytes)" lines printed
    notices           \* truncation notices printed

vars == <<force, no_insecure, dest0, out_dir, pc, exitCode, downloadOutcome,
          written, warned, cloneOutcome, lfsOutcome, checked, missing,
          modulesWarned, toWalk, count, entries, notices>>

args == <<force, no_insecure, dest0>>
fetchVars == <<downloadOutcome, written, warned, cloneOutcome, lfsOutcome>>
checkVars == <<checked, missing, modulesWarned>>
summaryVars == <<toWalk, count, entries, notices>>

\* ----------------------------------------------------- pure functions
\* Faulty variant: the tokenizer requirement asks for all four names, not any.
check_required_files_AllTokenizers(files) ==
    LET m1 == IF "config.json" \notin files THEN <<ConfigLabel>> ELSE <<>>
        m2 == IF ~("model.safetensors" \in files \/ "pytorch_model.bin" \in files)
              THEN Append(m1, WeightsLabel) ELSE m1
        m3 == IF ~(\A f \in {"tokenizer.json", "tokenizer_config.json",
                             "sentencepiece.bpe.model", "vocab.txt"} : f \in files)
              THEN Append(m2, TokenizerLabel) ELSE m2
    IN  m3

check_required_files(files) ==
    LET m1 == IF "config.json" \notin files THEN <<ConfigLabel>> ELSE <<>>
        m2 == IF ~("model.safetensors" \in files \/ "pytorch_model.bin" \in files)
              THEN Append(m1, WeightsLabel) ELSE m1
        m3 == IF ~(\E f \in {"tokenizer.json", "tokenizer_config.json",
                             "sentencepiece.bpe.model", "vocab.txt"} : f \in files)
              THEN Append(m2, TokenizerLabel) ELSE m2
    IN  m3

modules_warning(files) == "modules.json" \notin files

\* shutil.rmtree(out_dir): removes the tree, or raises part-way.
RmtreeOutcomes(d) ==
    {[dir |-> Absent, raised |-> FALSE]}
    \cup {[dir |-> Dir(R), raised |-> TRUE] : R \in SUBSET d.files}

\* Faulty variant: rmtree is called under --force without the exists() test, and
\* raises FileNotFoundError on a missing directory.
DestinationPreparation_NoExistsGuard(f, d) ==
    IF f
    THEN IF d.exists THEN RmtreeOutcomes(d) ELSE {[dir |-> d, raised |-> TRUE]}
    ELSE {[dir |-> d, raised |-> FALSE]}

\* main(), "if out_dir.exists(): if args.force: rmtree else: warn".
DestinationPreparation(f, d) ==
    IF d.exists
    THEN IF f THEN RmtreeOutcomes(d) ELSE {[dir |-> d, raised |-> FALSE]}
    ELSE {[dir |-> d, raised |-> FALSE]}

\* ------------------------------------------------------------------ Init
InitialState(d) ==
    /\ dest0 = d
    /\ out_dir = d
    /\ exitCode = -1
    /\ downloadOutcome = "none"
    /\ written = Absent
    /\ warned = FALSE
    /\ cloneOutcome = "none"
    /\ lfsOutcome = "none"
    /\ checked = FALSE
    /\ missing = <<>>
    /\ modulesWarned = FALSE
    /\ toWalk = 0
    /\ count = 0
    /\ entries = 0
    /\ notices = 0

Init ==
    /\ force \in BOOLEAN
    /\ no_insecure \in BOOLEAN
    /\ pc = "prepare"
    /\ \E d \in {Absent} \cup DirsUpTo(MaxInitFiles) : InitialState(d)

\* --------------------------------------------------------------- actions
Crash ==
    /\ pc' = "crashed"
    /\ exitCode' = 1

Prepare ==
    /\ pc = "prepare"
    /\ \E o \in DestinationPreparation(force, out_dir) :
         /\ out_dir' = o.dir
         /\ IF o.raised THEN Crash ELSE pc' = "download" /\ exitCode' = exitCode
    /\ UNCHANGED <<args, fetchVars, checkVars, summaryVars>>

\* Faulty variant: the fallback is entered after a download that returned.
SnapshotDownloadReturns_ThenFallback ==
    /\ pc = "download"
    /\ \E w \in DirsUpTo(MaxRepoFiles) :
         /\ out_dir' = Merge(out_dir, w)
         /\ written' = w
    /\ downloadOutcome' = "ok"
    /\ pc' = "fallback"
    /\ UNCHANGED <<args, exitCode, warned, cloneOutcome, lfsOutcome,
                   checkVars, summaryVars>>

SnapshotDownloadReturns ==
    /\ pc = "download"
    /\ \E w \in DirsUpTo(MaxRepoFiles) :
         /\ out_dir' = Merge(out_dir, w)
         /\ written' = w
    /\ downloadOutcome' = "ok"
    /\ pc' = "check"
    /\ UNCHANGED <<args, exitCode, warned, cloneOutcome, lfsOutcome,
                   checkVars, summaryVars>>

SnapshotDownloadRaises ==
    /\ pc = "download"
    /\ \E w \in {Absent} \cup DirsUpTo(MaxRepoFiles) :
         /\ out_dir' = Merge(out_dir, w)
         /\ written' = w
    /\ downloadOutcome' = "raised"
    /\ pc' = "except"
    /\ UNCHANGED <<args, exitCode, warned, cloneOutcome, lfsOutcome,
                   checkVars, summaryVars>>

ExceptNoInsecure ==
    /\ pc = "except"
    /\ no_insecure
    /\ pc' = "done"
    /\ exitCode' = 2
    /\ UNCHANGED <<args, out_dir, fetchVars, checkVars, summaryVars>>

\* Faulty variant: the handler does not look at --no-insecure before falling back.
ExceptFallback_IgnoresFlag ==
    /\ pc = "except"
    /\ pc' = "fallback"
    /\ UNCHANGED <<args, out_dir, exitCode, fetchVars, checkVars, summaryVars>>

ExceptFallback ==
    /\ pc = "except"
    /\ ~no_insecure
    /\ pc' = "fallback"
    /\ UNCHANGED <<args, out_dir, exitCode, fetchVars, checkVars, summaryVars>>

\* Faulty variant: the clone is set up without the warning being printed.
FallbackWarn_Silent ==
    /\ pc = "fallback"
    /\ \E mkdirRaises \in BOOLEAN :
         IF mkdirRaises
         THEN Crash /\ warned' = warned
         ELSE pc' = "clone" /\ exitCode' = exitCode /\ warned' = warned
    /\ UNCHANGED <<args, out_dir, downloadOutcome, written, cloneOutcome,
                   lfsOutcome, checkVars, summaryVars>>

FallbackWarn ==
    /\ pc = "fallback"
    /\ \E mkdirRaises \in BOOLEAN :
         IF mkdirRaises
         THEN Crash /\ warned' = warned
         ELSE pc' = "clone" /\ exitCode' = exitCode /\ warned' = TRUE
    /\ UNCHANGED <<args, out_dir, downloadOutcome, written, cloneOutcome,
                   lfsOutcome, checkVars, summaryVars>>

GitCloneSucceeds ==
    /\ pc = "clone"
    /\ NoFiles(out_dir)
    /\ \E w \in DirsUpTo(MaxRepoFiles) : out_dir' = w
    /\ cloneOutcome' = "ok"
    /\ pc' = "lfs"
    /\ UNCHANGED <<args, exitCode, downloadOutcome, written, warned,
                   lfsOutcome, checkVars, summaryVars>>

GitCloneFails ==
    /\ pc = "clone"
    /\ cloneOutcome' = "nonzero"
    /\ pc' = "done"
    /\ exitCode' = 3
    /\ UNCHANGED <<args, out_dir, downloadOutcome, written, warned,
                   lfsOutcome, checkVars, summaryVars>>

GitNotFound ==
    /\ pc = "clone"
    /\ cloneOutcome' = "nogit"
    /\ Crash
    /\ UNCHANGED <<args, out_dir, downloadOutcome, written, warned,
                   lfsOutcome, checkVars, summaryVars>>

\* Faulty variant: git lfs is run with check=True, so a non-zero exit raises
\* CalledProcessError, which nothing catches.
GitLfs_CheckTrue ==
    /\ pc = "lfs"
    /\ \E o \in {"ok", "nonzero", "notfound"} :
         /\ lfsOutcome' = o
         /\ IF o = "nonzero" THEN Crash ELSE pc' = "check" /\ exitCode' = exitCode
    /\ UNCHANGED <<args, out_dir, downloadOutcome, written, warned,
                   cloneOutcome, checkVars, summaryVars>>

GitLfs ==
    /\ pc = "lfs"
    /\ lfsOutcome' \in {"ok", "nonzero", "notfound"}
    /\ pc' = "check"
    /\ UNCHANGED <<args, out_dir, exitCode, downloadOutcome, written, warned,
                   cloneOutcome, checkVars, summaryVars>>

\* Faulty variant: a non-empty missing list ends the run with a failure status.
CheckRequiredFiles_Fatal ==
    /\ pc = "check"
    /\ missing' = check_required_files(IF out_dir.exists THEN out_dir.files ELSE {})
    /\ modulesWarned' = modules_warning(IF out_dir.exists THEN out_dir.files ELSE {})
    /\ checked' = TRUE
    /\ IF missing' # <<>>
       THEN pc' = "done" /\ exitCode' = 1
       ELSE pc' = "summary" /\ exitCode' = exitCode
    /\ UNCHANGED <<args, out_dir, fetchVars, summaryVars>>

CheckRequiredFiles ==
    /\ pc = "check"
    /\ missing' = check_required_files(IF out_dir.exists THEN out_dir.files ELSE {})
    /\ modulesWarned' = modules_warning(IF out_dir.exists THEN out_dir.files ELSE {})
    /\ checked' = TRUE
    /\ pc' = "summary"
    /\ UNCHANGED <<args, out_dir, exitCode, fetchVars, summaryVars>>

BeginSummary ==
    /\ pc = "summary"
    /\ \E extra \in 0..MaxExtra :
         toWalk' = IF out_dir.exists THEN Cardinality(out_dir.files) + extra ELSE 0
    /\ count' = 0
    /\ pc' = "walk"
    /\ UNCHANGED <<args, out_dir, exitCode, fetchVars, checkVars, entries, notices>>

\* Faulty variant: the cap is tested with > instead of >=.
PrintEntry_OffByOne ==
    /\ pc = "walk"
    /\ toWalk > 0
    /\ toWalk' = toWalk - 1
    /\ entries' = entries + 1
    /\ count' = count + 1
    /\ IF count' > max_files
       THEN notices' = notices + 1 /\ pc' = "next_steps"
       ELSE notices' = notices /\ pc' = "walk"
    /\ UNCHANGED <<args, out_dir, exitCode, fetchVars, checkVars>>

PrintEntry ==
    /\ pc = "walk"
    /\ toWalk > 0
    /\ toWalk' = toWalk - 1
    /\ entries' = entries + 1
    /\ count' = count + 1
    /\ IF count' >= max_files
       THEN notices' = notices + 1 /\ pc' = "next_steps"
       ELSE notices' = notices /\ pc' = "walk"
    /\ UNCHANGED <<args, out_dir, exitCode, fetchVars, checkVars>>

WalkExhausted ==
    /\ pc = "walk"
    /\ toWalk = 0
    /\ pc' = "next_steps"
    /\ UNCHANGED <<args, out_dir, exitCode, fetchVars, checkVars, summaryVars>>

NextSteps ==
    /\ pc = "next_steps"
    /\ pc' = "done"
    /\ exitCode' = 0
    /\ UNCHANGED <<args, out_dir, fetchVars, checkVars, summaryVars>>

Next ==
    \/ Prepare
    \/ SnapshotDownloadReturns
    \/ SnapshotDownloadRaises
    \/ ExceptNoInsecure
    \/ ExceptFallback
    \/ FallbackWarn
    \/ GitCloneSucceeds
    \/ GitCloneFails
    \/ GitNotFound
    \/ GitLfs
    \/ CheckRequiredFiles
    \/ BeginSummary
    \/ PrintEntry
    \/ WalkExhausted
    \/ NextSteps

Spec == Init /\ [][Next]_vars

\* The completeness check alone, on every set of watched names the
\* destination root can hold after a successful download.
CheckInit ==
    /\ force = FALSE
    /\ no_insecure = FALSE
    /\ pc = "check"
    /\ \E d \in DirsUpTo(Cardinality(Names)) :
         /\ dest0 = Absent
         /\ out_dir = d
         /\ written = d
    /\ exitCode = -1
    /\ downloadOutcome = "ok"
    /\ warned = FALSE
    /\ cloneOutcome = "none"
    /\ lfsOutcome = "none"
    /\ checked = FALSE
    /\ missing = <<>>
    /\ modulesWarned = FALSE
    /\ toWalk = 0
    /\ count = 0
    /\ entries = 0
    /\ notices = 0

CheckNext == CheckRequiredFiles

CheckSpec == CheckInit /\ [][CheckNext]_vars

\* print_summary alone, entered with count = 0 on trees of up to
\* MaxTreeFiles files.
SummaryInit ==
    /\ force = FALSE
    /\ no_insecure = FALSE
    /\ pc = "walk"
    /\ \E d \in DirsUpTo(MaxInitFiles) :
         /\ dest0 = Absent
         /\ out_dir = d
         /\ written = d
         /\ missing = check_required_files(d.files)
         /\ modulesWarned = modules_warning(d.files)
         /\ toWalk \in Cardinality(d.files)..MaxTreeFiles
    /\ exitCode = -1
    /\ downloadOutcome = "ok"
    /\ warned = FALSE
    /\ cloneOutcome = "none"
    /\ lfsOutcome = "none"
    /\ checked = TRUE
    /\ count = 0
    /\ entries = 0
    /\ notices = 0

SummaryNext ==
    \/ PrintEntry
    \/ WalkExhausted
    \/ NextSteps

SummarySpec == SummaryInit /\ [][SummaryNext]_vars

\* ---------------------------------------------------------------- claims
Terminal == pc \in {"done", "crashed"}
AfterFetch == {"check", "summary", "walk", "next_steps", "done"}
Range(s) == {s[i] : i \in 1..Len(s)}
LabelRank(l) ==
    CASE l = ConfigLabel -> 1
      [] l = WeightsLabel -> 2
      [] l = TokenizerLabel -> 3
      [] OTHER -> 0
TreeSize == toWalk + entries

\* C1: when snapshot_download returns without raising, the insecure fallback
\* is never entered: no warning, no git clone, no git lfs, whatever the flags
\* and the initial destination.
C1_NoFallbackAfterSuccess ==
    downloadOutcome = "ok" =>
        /\ ~warned
        /\ cloneOutcome = "none"
        /\ lfsOutcome = "none"
        /\ pc \notin {"except", "fallback", "clone", "lfs"}

C1_Witness ==
    /\ downloadOutcome = "ok"
    /\ pc = "done"
    /\ ~no_insecure
    /\ force
    /\ dest0.exists

\* C2 (as claimed): when snapshot_download raises and --no-insecure is set,
\* the run exits with status 2, no clone is attempted, and the destination is
\* as the run found it.  Stated on the runs in which the failed download
\* itself wrote nothing, so that only main() can have changed the destination.
C2_DestinationUnchanged ==
    (downloadOutcome = "raised" /\ no_insecure /\ Terminal /\ ~written.exists) =>
        /\ exitCode = 2
        /\ cloneOutcome = "none"
        /\ out_dir = dest0

\* C2 (amended): when snapshot_download raises and --no-insecure is set, the
\* run exits with status 2 and neither warns nor clones; the destination is
\* what destination preparation left (removed if --force found it existing,
\* else untouched) plus whatever the failed download wrote, so it is as the
\* run found it when --force removed nothing and the download wrote nothing.
C2_ExitTwoNoClone ==
    (downloadOutcome = "raised" /\ no_insecure /\ pc # "except") =>
        /\ pc = "done"
        /\ exitCode = 2
        /\ cloneOutcome = "none"
        /\ ~warned
        /\ out_dir = Merge(IF force /\ dest0.exists THEN Absent ELSE dest0, written)
        /\ (~(force /\ dest0.exists) /\ ~written.exists) => out_dir = dest0

C2_Witness ==
    /\ downloadOutcome = "raised"
    /\ no_insecure
    /\ pc = "done"
    /\ ~force
    /\ dest0.exists
    /\ dest0.files # {}
    /\ ~written.exists
    /\ out_dir = dest0

\* C3: when snapshot_download raises, the fallback is allowed and the clone
\* fails (git exits non-zero, or the git executable is missing), the run
\* exits with status 3 and reaches neither the completeness check nor the
\* summary.
C3_CloneFailureExitsThree ==
    (downloadOutcome = "raised" /\ ~no_insecure
        /\ cloneOutcome \in {"nonzero", "nogit"}) =>
        /\ pc = "done"
        /\ exitCode = 3
        /\ ~checked
        /\ entries = 0

\* C4: no run ends in an uncaught exception: every terminal state is an exit
\* with status 0, 2 or 3.
C4_NoUncaughtException ==
    /\ pc # "crashed"
    /\ Terminal => exitCode \in {0, 2, 3}

\* C5: check_required_files returns exactly the labels of the unmet
\* requirements, in the order config, weights, tokenizer; modules.json never
\* changes the list, its absence only raises the separate warning.
C5_MissingIsUnmetLabels ==
    checked =>
        LET files == out_dir.files
        IN  /\ \A i \in 1..Len(missing) : LabelRank(missing[i]) > 0
            /\ \A i, j \in 1..Len(missing) :
                 i < j => LabelRank(missing[i]) < LabelRank(missing[j])
            /\ ConfigLabel \in Range(missing) <=> files \cap ConfigNames = {}
            /\ WeightsLabel \in Range(missing) <=> files \cap WeightsNames = {}
            /\ TokenizerLabel \in Range(missing) <=> files \cap TokenizerNames = {}
            /\ (files \cap ConfigNames # {} /\ files \cap WeightsNames # {}
                  /\ files \cap TokenizerNames # {}) => missing = <<>>
            /\ check_required_files(files \cup ModulesNames) = missing
            /\ check_required_files(files \ ModulesNames) = missing
            /\ modulesWarned <=> files \cap ModulesNames = {}

C5_Witness ==
    /\ checked
    /\ out_dir.files = {"config.json", "pytorch_model.bin"}
    /\ missing = <<TokenizerLabel>>
    /\ modulesWarned

\* C6: once snapshot_download or the clone has succeeded, the run goes on
\* through the completeness check and the summary and can only end with exit
\* status 0, whatever is missing; the completeness check leaves the
\* destination as it was.
C6_GapsInv ==
    (downloadOutcome = "ok" \/ cloneOutcome = "ok") =>
        /\ pc \in {"lfs"} \cup AfterFetch
        /\ pc \in (AfterFetch \ {"check"}) => checked
        /\ pc = "done" => exitCode = 0
        /\ pc # "done" => exitCode = -1 /\ ENABLED Next

C6_GapsNeverFatal ==
    /\ []C6_GapsInv
    /\ [][pc = "check" => out_dir' = out_dir /\ pc' = "summary"]_vars

C6_Witness ==
    /\ cloneOutcome = "ok"
    /\ pc = "done"
    /\ exitCode = 0
    /\ Len(missing) = 3

\* C7: print_summary prints at most max_files entries; on a tree of more
\* than max_files files it prints exactly max_files entries and one
\* truncation notice, and leaves the rest of the tree unprinted.
C7_SummaryTruncates ==
    /\ entries <= max_files
    /\ notices <= 1
    /\ entries = count
    /\ (pc \in {"next_steps", "done"} /\ TreeSize > max_files) =>
          /\ entries = max_files
          /\ notices = 1
          /\ toWalk = TreeSize - max_files
    /\ (pc \in {"next_steps", "done"} /\ TreeSize < max_files) =>
          /\ toWalk = 0
          /\ notices = 0

C7_Witness ==
    /\ pc = "done"
    /\ entries = max_files
    /\ toWalk > 0
    /\ notices = 1

\* C8: with force set, the destination holds no files when the fetch is
\* about to begin, and preparing it once more cannot fail and leaves it as
\* it is.
C8_ForcePrepareIdempotent ==
    (pc = "download" /\ force) =>
        /\ NoFiles(out_dir)
        /\ DestinationPreparation(TRUE, out_dir)
             = {[dir |-> out_dir, raised |-> FALSE]}

C8_Witness ==
    /\ pc = "download"
    /\ force
    /\ dest0.exists
    /\ dest0.files # {}

\* C9: the clone command is never issued before the INSECURE FALLBACK
\* warning has been written to stderr in the same run.
C9_WarnedBeforeClone ==
    (pc = "clone" \/ cloneOutcome # "none" \/ lfsOutcome # "none") => warned

C9_Witness ==
    /\ cloneOutcome = "ok"
    /\ warned

\* C10: git lfs is attempted only after a successful clone, and whatever
\* its outcome (ok, non-zero exit, not found) the run goes on to the
\* completeness check and can only end with exit status 0.
C10_LfsNeverFatal ==
    /\ lfsOutcome # "none" => cloneOutcome = "ok"
    /\ pc = "lfs" => cloneOutcome = "ok" /\ ENABLED GitLfs
    /\ (cloneOutcome = "ok" /\ pc # "lfs") =>
          /\ lfsOutcome \in {"ok", "nonzero", "notfound"}
          /\ pc \in AfterFetch
          /\ Terminal => exitCode = 0 /\ checked

C10_Witness ==
    /\ cloneOutcome = "ok"
    /\ lfsOutcome = "notfound"
    /\ pc = "done"
    /\ exitCode = 0

====
